---- MODULE Spec2Model ----
(***************************************************************************)
(* rag-ml/kb/build-docs.py: the knowledge-base corpus builder.             *)
(*                                                                         *)
(* A directory tree is a function from relative paths to entries; the      *)
(* root of the tree is the empty path, and a tree that does not exist on   *)
(* disk is the function with the empty domain.  A path is a sequence of    *)
(* names (pathlib's parts) and a name is a sequence of characters, so that *)
(* Path.suffix, str.lower and the page-range file name are computed the    *)
(* way the code computes them.                                             *)
(***************************************************************************)
EXTENDS Integers, Sequences, FiniteSets, TLC

VARIABLES
    raw,            \* per language, the tree under its raw input directory
    out,            \* per language, the tree under its output directory
    pypdf,          \* whether "from pypdf import PdfReader" succeeds
    pages_per_file, \* args.cpp_pages_per_file
    pc,             \* the step main is at: main, python, javascript, swift,
                    \* cpp, cpp_loop, done, failed
    exit_code,      \* the exit status of the process, -1 while it runs
    message,        \* the message of the SystemExit raised, "" if none
    total,          \* build_cpp: len(reader.pages)
    start,          \* build_cpp: first page (0-based) of the next batch
    copied,         \* build_swift: the count copy_matching_files returned
    iters,          \* history: iterations of the batching loop in this run
    built,          \* history: the steps that have returned in this run
    out0,           \* history: out as it was when this run started
    snap,           \* history: per language, the tree and the arguments its
                    \* step last returned with
    runs            \* how many times the script has been started

vars == <<raw, out, pypdf, pages_per_file, pc, exit_code, message,
          total, start, copied, iters, built, out0, snap, runs>>

\* ---------------------------------------------------------------- bounds
MaxPages == 4
MaxBatch == 3
MaxRuns == 2

\* argparse default of --cpp-pages-per-file
DefaultPagesPerFile == 200

\* ----------------------------------------------------------------- names
Ecma262Txt == <<"e","c","m","a","2","6","2",".","t","x","t">>
TsplDocc == <<"T","S","P","L",".","d","o","c","c">>
LicenseTxt == <<"L","I","C","E","N","S","E",".","t","x","t">>
CppDraftPdf == <<"c","p","p","-","d","r","a","f","t",".","p","d","f">>
DotMd == <<".","m","d">>

Languages == <<"python", "javascript", "swift", "cpp">>
Lang == {Languages[i] : i \in 1..Len(Languages)}

\* ------------------------------------------------------------ file system
Dir == [kind |-> "dir", data |-> <<>>]
File(d) == [kind |-> "file", data |-> d]
Absent == [p \in {} |-> Dir]
Root == <<>>

exists(t, p) == p \in DOMAIN t
is_file(t, p) == p \in DOMAIN t /\ t[p].kind = "file"
parent(p) == SubSeq(p, 1, Len(p) - 1)
relative_to(p, base) == SubSeq(p, Len(base) + 1, Len(p))
Under(p, base) == Len(p) > Len(base) /\ SubSeq(p, 1, Len(base)) = base

\* Path.mkdir(parents=True, exist_ok=True): the path and its missing parents
\* become directories, what exists stays
ensure_dir(t, p) ==
    t @@ (CHOOSE made \in {[q \in {SubSeq(x, 1, i) : i \in 0..Len(x)} |-> Dir] :
                              x \in {p}} : TRUE)

rmtree(t) == Absent

\* variant: the directory is made but not emptied first
reset_dir_keep(t) == ensure_dir(t, Root)
reset_dir(t) == ensure_dir(IF exists(t, Root) THEN rmtree(t) ELSE t, Root)

\* shutil.copy2: the destination holds the source's bytes afterwards
copy2(t, p, d) == (p :> File(d)) @@ t

\* os.walk(src): every directory reachable from root, top down
RECURSIVE walk(_, _)
walk(t, root) ==
    {root} \cup UNION {walk(t, d) :
        d \in {c \in DOMAIN t : Len(c) = Len(root) + 1 /\ parent(c) = root
                                 /\ t[c].kind = "dir"}}

files_of(t, root) ==
    {c \in DOMAIN t : Len(c) = Len(root) + 1 /\ parent(c) = root
                       /\ t[c].kind = "file"}

\* The loops below take one element of "todo" per turn; each turn binds the
\* tree built so far and the rest of the work as values (d, rest) before it
\* goes on.

\* for name in files: shutil.copy2(in_path, out_path)
RECURSIVE copy_files(_, _, _)
copy_files(src, dst, todo) ==
    LET turn(d, rest) ==
            IF rest = {} THEN d
            ELSE LET in_path == CHOOSE p \in rest : TRUE
                 IN copy_files(src, copy2(d, in_path, src[in_path].data),
                               rest \ {in_path})
    IN CHOOSE r \in {turn(d, rest) : d \in {dst}, rest \in {todo}} : TRUE

\* for root, _, files in os.walk(src): ensure_dir(out_dir), then the files
RECURSIVE copy_dirs(_, _, _)
copy_dirs(src, dst, todo) ==
    LET turn(d, rest) ==
            IF rest = {} THEN d
            ELSE LET root_path == CHOOSE x \in rest : TRUE
                 IN copy_dirs(src,
                              copy_files(src, ensure_dir(d, root_path),
                                         files_of(src, root_path)),
                              rest \ {root_path})
    IN CHOOSE r \in {turn(d, rest) : d \in {dst}, rest \in {todo}} : TRUE

\* variant: only the files of the top directory are copied
copy_tree_shallow(src, dst) == copy_dirs(src, dst, {Root})
copy_tree(src, dst) == copy_dirs(src, dst, walk(src, Root))

\* ----------------------------------------------------- Path.suffix, lower
Upper == <<"A","B","C","D","E","F","G","H","I","J","K","L","M",
           "N","O","P","Q","R","S","T","U","V","W","X","Y","Z">>
Lower == <<"a","b","c","d","e","f","g","h","i","j","k","l","m",
           "n","o","p","q","r","s","t","u","v","w","x","y","z">>

lower_char(c) ==
    IF \E i \in 1..Len(Upper) : Upper[i] = c
    THEN Lower[CHOOSE i \in 1..Len(Upper) : Upper[i] = c]
    ELSE c

\* variant: the suffix is compared as written
lower_none(s) == s

lower(s) == [i \in 1..Len(s) |-> lower_char(s[i])]

\* str.rfind("."), 1-based; 0 when there is no dot
rfind_dot(name) ==
    IF \E i \in 1..Len(name) : name[i] = "."
    THEN CHOOSE i \in 1..Len(name) :
            name[i] = "." /\ \A j \in (i + 1)..Len(name) : name[j] # "."
    ELSE 0

\* PurePath.suffix: the text from the last dot, unless the dot leads or ends
\* the name
suffix(name) ==
    LET i == rfind_dot(name)
    IN IF 1 < i /\ i < Len(name) THEN SubSeq(name, i, Len(name)) ELSE <<>>

\* rglob("*"): every entry below src_root, at any depth
rglob(t, src_root) == {p \in DOMAIN t : Under(p, src_root)}

RECURSIVE copy_matching_loop(_, _, _, _, _, _)
copy_matching_loop(src, src_root, acc, dst_root, suffixes, todo) ==
    LET turn(a, work) ==
            IF work = {} THEN a
            ELSE LET path == CHOOSE p \in work : TRUE
                     name == path[Len(path)]
                     out_path == dst_root \o relative_to(path, src_root)
                     rest == work \ {path}
                 IN IF ~is_file(src, path)
                    THEN copy_matching_loop(src, src_root, a, dst_root,
                                            suffixes, rest)
                    ELSE IF lower(suffix(name)) \notin suffixes
                    THEN copy_matching_loop(src, src_root, a, dst_root,
                                            suffixes, rest)
                    ELSE copy_matching_loop(src, src_root,
                            [tree |-> copy2(ensure_dir(a.tree, parent(out_path)),
                                            out_path, src[path].data),
                             count |-> a.count + 1],
                            dst_root, suffixes, rest)
    IN CHOOSE r \in {turn(a, work) : a \in {acc}, work \in {todo}} : TRUE

\* returns the destination tree and the count
copy_matching_files(src, src_root, dst, dst_root, suffixes) ==
    copy_matching_loop(src, src_root, [tree |-> dst, count |-> 0],
                       dst_root, suffixes, rglob(src, src_root))

\* ------------------------------------------------------ build_cpp helpers
DigitChar == <<"0","1","2","3","4","5","6","7","8","9">>

RECURSIVE digits(_)
digits(n) ==
    IF n < 10 THEN <<DigitChar[n + 1]>>
    ELSE digits(n \div 10) \o <<DigitChar[(n % 10) + 1]>>

RECURSIVE zero_fill(_, _)
zero_fill(s, width) == IF Len(s) >= width THEN s ELSE zero_fill(<<"0">> \o s, width)

\* format spec 04d: at least four characters, the sign among them
pad04d(n) ==
    IF n < 0 THEN <<"-">> \o zero_fill(digits(-n), 3)
    ELSE zero_fill(digits(n), 4)

\* variant: the 0-based page numbers go into the name
out_name_0based(start_page_0, end_page_0) ==
    <<"c","p","p","-","d","r","a","f","t",".","p">> \o pad04d(start_page_0)
        \o <<"-","p">> \o pad04d(end_page_0) \o <<".","t","x","t">>

out_name(start_page_0, end_page_0) ==
    <<"c","p","p","-","d","r","a","f","t",".","p">> \o pad04d(start_page_0 + 1)
        \o <<"-","p">> \o pad04d(end_page_0 + 1) \o <<".","t","x","t">>

Min(a, b) == IF a <= b THEN a ELSE b

\* extract_text() returns None (<<>>) or a string (<<s>>); "x or ''"
or_empty(x) == IF x = <<>> \/ x = <<"">> THEN "" ELSE x[1]

\* variant: a page without text is skipped, marker and all
page_writes_unmarked_empty(pages, first, last) ==
    LET all == [i \in 1..(last - first + 1) |->
                  [page |-> first + i, text |-> or_empty(pages[first + i])]]
    IN SelectSeq(all, LAMBDA w : w.text # "")

\* One write per page: the marker line carrying the 1-based page number,
\* then the text.
page_writes(pages, first, last) ==
    [i \in 1..(last - first + 1) |->
        [page |-> first + i, text |-> or_empty(pages[first + i])]]

\* variant: a batch one page too long
batch_end_long(n, first, k) == Min(n - 1, first + k)
\* end = min(total - 1, start + pages_per_file - 1)
batch_end(n, first, k) == Min(n - 1, first + k - 1)

\* --------------------------------------------------- disk contents at start
\* A tree from its directories and its files (<<path, data>> pairs).
Tree(dirs, files) ==
    [p \in dirs \cup {f[1] : f \in files} |->
        IF p \in dirs THEN Dir
        ELSE File((CHOOSE f \in files : f[1] = p)[2])]

A_txt == <<"a",".","t","x","t">>
B_txt == <<"b",".","t","x","t">>
C_txt == <<"c",".","t","x","t">>
Old_txt == <<"o","l","d",".","t","x","t">>
A_md == <<"a",".","m","d">>
B_MD == <<"b",".","M","D">>
F_md == <<"f",".","m","d">>
E_md == <<"e",".","m","d">>
Old_md == <<"o","l","d",".","m","d">>
Readme_md == <<"R","E","A","D","M","E",".","m","d">>
NoExt == <<"n","o","t","e","s">>
Sub == <<"s","u","b">>
Deep == <<"d","e","e","p">>
Empty == <<"e","m","p","t","y">>

\* languages/python/raw/python-docs-text
PythonNested ==
    Tree({Root, <<Sub>>, <<Sub, Deep>>, <<Empty>>},
         {<<(<<A_txt>>), 1>>, <<(<<Sub, B_txt>>), 2>>,
          <<(<<Sub, Deep, C_txt>>), 3>>, <<(<<Sub, NoExt>>), 4>>})

PythonRaws ==
    { Absent,
      Tree({Root}, {}),
      Tree({Root}, {<<(<<A_txt>>), 1>>}),
      PythonNested }

\* languages/javascript/raw/ecma262
JavascriptRaws ==
    { Absent,
      Tree({Root}, {}),
      Tree({Root}, {<<(<<Ecma262Txt>>), 5>>}) }

\* languages/swift/raw/swift-book
SwiftBook ==
    Tree({Root, <<TsplDocc>>, <<TsplDocc, Sub>>, <<TsplDocc, E_md>>,
          <<TsplDocc, Empty>>},
         {<<(<<LicenseTxt>>), 6>>, <<(<<Readme_md>>), 8>>,
          <<(<<TsplDocc, A_md>>), 10>>, <<(<<TsplDocc, C_txt>>), 7>>,
          <<(<<TsplDocc, DotMd>>), 11>>, <<(<<TsplDocc, Sub, B_MD>>), 12>>,
          <<(<<TsplDocc, Sub, NoExt>>), 13>>,
          <<(<<TsplDocc, E_md, F_md>>), 14>>})

SwiftRaws ==
    { Absent,
      Tree({Root}, {<<(<<LicenseTxt>>), 6>>}),
      Tree({Root, <<TsplDocc>>}, {}),
      Tree({Root, <<TsplDocc>>}, {<<(<<TsplDocc, C_txt>>), 7>>}),
      SwiftBook }

\* What extract_text() gives for page i of the PDF: text on every page, or
\* None, "" and text in turn.
PageTexts(n, mixed) ==
    [i \in 1..n |->
        IF mixed /\ i % 3 = 1 THEN <<>>
        ELSE IF mixed /\ i % 3 = 2 THEN <<"">>
        ELSE <<"text of page " \o ToString(i)>>]

\* languages/cpp/downloads
CppRaws ==
    {Absent} \cup
    {Tree({Root}, {<<(<<CppDraftPdf>>), PageTexts(n, mixed)>>}) :
        n \in 0..MaxPages, mixed \in BOOLEAN}

\* What an output directory holds before the run: nothing, the output of an
\* older run on other input, or what a failed run left.
StaleOut ==
    [ python |-> Tree({Root, <<Empty>>, <<Deep>>},
                      {<<(<<A_txt>>), 9>>, <<(<<Old_txt>>), 9>>,
                       <<(<<Deep, Old_txt>>), 9>>}),
      javascript |-> Tree({Root}, {<<(<<Ecma262Txt>>), 9>>, <<(<<Old_txt>>), 9>>}),
      swift |-> Tree({Root, <<TsplDocc>>, <<TsplDocc, Deep>>},
                     {<<(<<LicenseTxt>>), 9>>, <<(<<TsplDocc, A_md>>), 9>>,
                      <<(<<TsplDocc, C_txt>>), 9>>, <<(<<TsplDocc, Deep, Old_md>>), 9>>}),
      cpp |-> Tree({Root},
                   {<<(<<out_name(0, DefaultPagesPerFile - 1)>>), <<[page |-> 1, text |-> "old"]>>>>,
                    <<(<<out_name(0, 0)>>), <<[page |-> 1, text |-> "old"]>>>>,
                    <<(<<Old_txt>>), <<>>>>}) ]

PartialOut ==
    [ python |-> Tree({Root}, {<<(<<A_txt>>), 1>>}),
      javascript |-> Tree({Root}, {}),
      swift |-> Tree({Root, <<TsplDocc>>}, {<<(<<TsplDocc, A_md>>), 10>>}),
      cpp |-> Tree({Root}, {<<(<<out_name(0, 0)>>), <<>>>>}) ]

PriorOuts == {[l \in Lang |-> Absent], StaleOut, PartialOut}

BatchSizes == 0..MaxBatch \cup {DefaultPagesPerFile}

NoSnap == [set |-> FALSE, tree |-> Absent, args |-> <<>>]

Init ==
    /\ raw \in {[python |-> py, javascript |-> js, swift |-> sw, cpp |-> cp] :
                  py \in PythonRaws, js \in JavascriptRaws,
                  sw \in SwiftRaws, cp \in CppRaws}
    /\ out \in PriorOuts
    /\ pypdf \in BOOLEAN
    /\ pages_per_file = DefaultPagesPerFile
    /\ pc = "main"
    /\ exit_code = -1
    /\ message = ""
    /\ total = 0
    /\ start = 0
    /\ copied = 0
    /\ iters = 0
    /\ built = {}
    /\ out0 = out
    /\ snap = [l \in Lang |-> NoSnap]
    /\ runs = 1

\* ----------------------------------------------------------------- driver
PythonMissing == "Python raw docs not found. Run: ./rag-ml/kb/pull-docs.sh"
JavascriptMissing == "JS raw ecma262.txt not found. Run: ./rag-ml/kb/pull-docs.sh"
SwiftMissing == "Swift raw swift-book not found. Run: ./rag-ml/kb/pull-docs.sh"
CppMissing == "C++ draft PDF not found. Run: ./rag-ml/kb/pull-docs.sh"
PypdfMissing ==
    "Missing dependency 'pypdf'. Install with: python3 -m pip install -r rag-ml/requirements.txt"

\* the build step that follows the one at pc
after(step) ==
    CASE step = "python" -> "javascript"
      [] step = "javascript" -> "swift"
      [] step = "swift" -> "cpp"
      [] OTHER -> "failed"

\* variant: the failure is recorded and the next step runs all the same
SystemExit_continue(msg) ==
    /\ pc' = after(pc)
    /\ exit_code' = 1
    /\ message' = msg
    /\ UNCHANGED <<raw, out, pypdf, pages_per_file, total, start, copied,
                   iters, built, out0, snap, runs>>

\* variant: the message is given and the process ends with status 0
SystemExit_zero(msg) ==
    /\ pc' = "failed"
    /\ exit_code' = 0
    /\ message' = msg
    /\ UNCHANGED <<raw, out, pypdf, pages_per_file, total, start, copied,
                   iters, built, out0, snap, runs>>

\* raise SystemExit(msg): the message goes to stderr, the exit status is 1
SystemExit(msg) ==
    /\ pc' = "failed"
    /\ exit_code' = 1
    /\ message' = msg
    /\ UNCHANGED <<raw, out, pypdf, pages_per_file, total, start, copied,
                   iters, built, out0, snap, runs>>

\* variant: every step writes below the python output directory
Completed_shared(lang, tree, next) ==
    /\ out' = [out EXCEPT !["python"] = tree]
    /\ built' = built \cup {lang}
    /\ snap' = [snap EXCEPT ![lang] =
                  [set |-> TRUE, tree |-> tree,
                   args |-> IF lang = "cpp" THEN <<pages_per_file>> ELSE <<>>]]
    /\ pc' = next

\* A step of one language has run to its end.
Completed(lang, tree, next) ==
    /\ out' = [out EXCEPT ![lang] = tree]
    /\ built' = built \cup {lang}
    /\ snap' = [snap EXCEPT ![lang] =
                  [set |-> TRUE, tree |-> tree,
                   args |-> IF lang = "cpp" THEN <<pages_per_file>> ELSE <<>>]]
    /\ pc' = next

\* main, up to the first build step: the arguments are parsed
Main ==
    /\ pc = "main"
    /\ pages_per_file' \in BatchSizes
    /\ pc' = "python"
    /\ UNCHANGED <<raw, out, pypdf, exit_code, message, total, start, copied,
                   iters, built, out0, snap, runs>>

python_docs(r, o) == copy_tree(r, reset_dir(o))

build_python ==
    /\ pc = "python"
    /\ IF ~exists(raw["python"], Root)
       THEN SystemExit(PythonMissing)
       ELSE /\ Completed("python", python_docs(raw["python"], out["python"]),
                         "javascript")
            /\ UNCHANGED <<raw, pypdf, pages_per_file, exit_code, message,
                           total, start, copied, iters, out0, runs>>

javascript_docs(r, o) ==
    copy2(reset_dir(o), <<Ecma262Txt>>, r[<<Ecma262Txt>>].data)

build_javascript ==
    /\ pc = "javascript"
    /\ IF ~exists(raw["javascript"], <<Ecma262Txt>>)
       THEN SystemExit(JavascriptMissing)
       ELSE /\ Completed("javascript",
                         javascript_docs(raw["javascript"], out["javascript"]),
                         "swift")
            /\ UNCHANGED <<raw, pypdf, pages_per_file, exit_code, message,
                           total, start, copied, iters, out0, runs>>

\* the tree and the count build_swift ends with
swift_docs(r, o) ==
    LET res == copy_matching_files(r, <<TsplDocc>>, reset_dir(o), <<TsplDocc>>,
                                   {DotMd})
    IN [tree |-> IF exists(r, <<LicenseTxt>>)
                 THEN copy2(res.tree, <<LicenseTxt>>, r[<<LicenseTxt>>].data)
                 ELSE res.tree,
        count |-> res.count]

\* variant: build_swift without the test for the raw directory
build_swift_no_check ==
    /\ pc = "swift"
    /\ Completed("swift", swift_docs(raw["swift"], out["swift"]).tree, "cpp")
    /\ copied' = swift_docs(raw["swift"], out["swift"]).count
    /\ UNCHANGED <<raw, pypdf, pages_per_file, exit_code, message,
                   total, start, iters, out0, runs>>

build_swift ==
    /\ pc = "swift"
    /\ IF ~exists(raw["swift"], Root)
       THEN SystemExit(SwiftMissing)
       ELSE /\ Completed("swift", swift_docs(raw["swift"], out["swift"]).tree,
                         "cpp")
            /\ copied' = swift_docs(raw["swift"], out["swift"]).count
            /\ UNCHANGED <<raw, pypdf, pages_per_file, exit_code, message,
                           total, start, iters, out0, runs>>

\* build_cpp up to the loop: the import, the prerequisite, the reset and the
\* page count
build_cpp ==
    /\ pc = "cpp"
    /\ IF ~pypdf
       THEN SystemExit(PypdfMissing)
       ELSE IF ~exists(raw["cpp"], <<CppDraftPdf>>)
       THEN SystemExit(CppMissing)
       ELSE /\ out' = [out EXCEPT !["cpp"] = reset_dir(out["cpp"])]
            /\ total' = Len(raw["cpp"][<<CppDraftPdf>>].data)
            /\ start' = 0
            /\ iters' = 0
            /\ pc' = "cpp_loop"
            /\ UNCHANGED <<raw, pypdf, pages_per_file, exit_code, message,
                           copied, built, out0, snap, runs>>

\* one iteration of "while start < total"
write_batch ==
    /\ pc = "cpp_loop"
    /\ start < total
    /\ iters <= MaxPages
    /\ LET end == batch_end(total, start, pages_per_file)
           reader == raw["cpp"][<<CppDraftPdf>>].data
       IN /\ out' = [out EXCEPT !["cpp"] =
                        copy2(out["cpp"], <<out_name(start, end)>>,
                              page_writes(reader, start, end))]
          /\ start' = end + 1
    /\ iters' = iters + 1
    /\ UNCHANGED <<raw, pypdf, pages_per_file, pc, exit_code, message, total,
                   copied, built, out0, snap, runs>>

\* the loop condition fails, build_cpp returns, main says done and returns
cpp_done ==
    /\ pc = "cpp_loop"
    /\ ~(start < total)
    /\ Completed("cpp", out["cpp"], "done")
    /\ exit_code' = 0
    /\ UNCHANGED <<raw, pypdf, pages_per_file, message, total, start, copied,
                   iters, out0, runs>>

\* the script is run again on the same disk
Rerun ==
    /\ pc \in {"done", "failed"}
    /\ runs < MaxRuns
    /\ runs' = runs + 1
    /\ pc' = "main"
    /\ exit_code' = -1
    /\ message' = ""
    /\ total' = 0
    /\ start' = 0
    /\ copied' = 0
    /\ iters' = 0
    /\ built' = {}
    /\ out0' = out
    /\ UNCHANGED <<raw, out, pypdf, pages_per_file, snap>>

Step ==
    \/ Main
    \/ build_python
    \/ build_javascript
    \/ build_swift
    \/ build_cpp
    \/ write_batch
    \/ cpp_done

Next == Step \/ Rerun

Spec == Init /\ [][Next]_vars


\* ------------------------------------------------- vocabulary of the claims
RawPresent(l) ==
    CASE l = "python" -> exists(raw["python"], Root)
      [] l = "javascript" -> exists(raw["javascript"], <<Ecma262Txt>>)
      [] l = "swift" -> exists(raw["swift"], Root)
      [] l = "cpp" -> exists(raw["cpp"], <<CppDraftPdf>>)

MissingMessage(l) ==
    CASE l = "python" -> PythonMissing
      [] l = "javascript" -> JavascriptMissing
      [] l = "swift" -> SwiftMissing
      [] l = "cpp" -> CppMissing

\* the step the run failed in, read off the message
FailedAt ==
    CASE message = PythonMissing -> 1
      [] message = JavascriptMissing -> 2
      [] message = SwiftMissing -> 3
      [] OTHER -> 4

EntryEq(a, b) == a.kind = b.kind /\ (a.kind = "file" => a.data = b.data)
SameTree(a, b) == DOMAIN a = DOMAIN b /\ \A p \in DOMAIN a : EntryEq(a[p], b[p])
FilesIn(t) == {p \in DOMAIN t : t[p].kind = "file"}
DirsIn(t) == {p \in DOMAIN t : t[p].kind = "dir"}
Ancestors(ps) == UNION {{SubSeq(p, 1, i) : i \in 0..(Len(p) - 1)} : p \in ps}

Ceil(a, b) == (a + b - 1) \div b

Pages == IF RawPresent("cpp") THEN raw["cpp"][<<CppDraftPdf>>].data ELSE <<>>
PageCount == Len(Pages)
ExtractedText(n) == IF Pages[n] = <<>> THEN "" ELSE Pages[n][1]

\* Reading a page range back out of a file name.
IsDigit(c) == \E i \in 1..10 : DigitChar[i] = c
DigitValue(c) == (CHOOSE i \in 1..10 : DigitChar[i] = c) - 1

RECURSIVE Number(_)
Number(s) ==
    IF s = <<>> THEN 0
    ELSE Number(SubSeq(s, 1, Len(s) - 1)) * 10 + DigitValue(s[Len(s)])

NamePrefix == <<"c","p","p","-","d","r","a","f","t",".","p">>
NameExt == <<".","t","x","t">>

Dash(name) == CHOOSE i \in (Len(NamePrefix) + 1)..Len(name) : name[i] = "-"
FirstDigits(name) == SubSeq(name, Len(NamePrefix) + 1, Dash(name) - 1)
LastDigits(name) == SubSeq(name, Dash(name) + 2, Len(name) - Len(NameExt))

EmbedsRange(name) ==
    /\ Len(name) >= Len(NamePrefix) + 4 + 2 + 4 + Len(NameExt)
    /\ SubSeq(name, 1, Len(NamePrefix)) = NamePrefix
    /\ SubSeq(name, Len(name) - Len(NameExt) + 1, Len(name)) = NameExt
    /\ \E i \in (Len(NamePrefix) + 1)..Len(name) : name[i] = "-"
    /\ name[Dash(name) + 1] = "p"
    /\ Len(FirstDigits(name)) >= 4 /\ Len(LastDigits(name)) >= 4
    /\ \A i \in 1..Len(FirstDigits(name)) : IsDigit(FirstDigits(name)[i])
    /\ \A i \in 1..Len(LastDigits(name)) : IsDigit(LastDigits(name)[i])

RangeOf(name) == <<Number(FirstDigits(name)), Number(LastDigits(name))>>

CppFiles == FilesIn(out["cpp"])
CppRanges == {RangeOf(p[1]) : p \in CppFiles}

\* the file holds one marker and text per page of its range, in page order
HoldsItsPages(p) ==
    LET r == RangeOf(p[1])
        d == out["cpp"][p].data
    IN /\ Len(d) = r[2] - r[1] + 1
       /\ \A i \in 1..Len(d) :
            d[i].page = r[1] + i - 1 /\ d[i].text = ExtractedText(r[1] + i - 1)

\* a name has an allowed extension: it ends in ".md" in either case, after
\* a stem
HasMdExtension(name) ==
    /\ Len(name) > 3
    /\ name[Len(name) - 2] = "."
    /\ name[Len(name) - 1] \in {"m", "M"}
    /\ name[Len(name)] \in {"d", "D"}

SwiftMatching ==
    {p \in FilesIn(raw["swift"]) :
        Under(p, <<TsplDocc>>) /\ HasMdExtension(p[Len(p)])}

\* What each output directory holds when it is made of the raw input and of
\* nothing else.
ExactOutput(l) ==
    CASE l = "python" -> SameTree(out["python"], raw["python"])
      [] l = "javascript" ->
            /\ DOMAIN out["javascript"] = {Root, <<Ecma262Txt>>}
            /\ EntryEq(out["javascript"][<<Ecma262Txt>>],
                       raw["javascript"][<<Ecma262Txt>>])
      [] l = "swift" ->
            LET lic == IF exists(raw["swift"], <<LicenseTxt>>)
                       THEN {<<LicenseTxt>>} ELSE {}
            IN /\ FilesIn(out["swift"]) = SwiftMatching \cup lic
               /\ DirsIn(out["swift"]) = {Root} \cup Ancestors(SwiftMatching)
               /\ \A p \in FilesIn(out["swift"]) :
                    EntryEq(out["swift"][p], raw["swift"][p])
      [] l = "cpp" ->
            /\ DirsIn(out["cpp"]) = {Root}
            /\ \A p \in CppFiles :
                 /\ Len(p) = 1 /\ EmbedsRange(p[1])
                 /\ (RangeOf(p[1])[1] - 1) % pages_per_file = 0
                 /\ RangeOf(p[1])[2] =
                      Min(PageCount, RangeOf(p[1])[1] + pages_per_file - 1)
                 /\ HoldsItsPages(p)
            /\ \A n \in 1..PageCount :
                 \E p \in CppFiles : RangeOf(p[1])[1] <= n /\ n <= RangeOf(p[1])[2]

\* One run of the script.  One process, no scheduler: a step that can be
\* taken is taken.  The run starts from stale output directories, with each
\* raw artifact either absent or in its fullest form (the PDF with every
\* page count).
FairInit ==
    /\ Init
    /\ out = StaleOut
    /\ raw["python"] \in {Absent, PythonNested}
    /\ raw["javascript"] # Tree({Root}, {})
    /\ raw["swift"] \in {Absent, SwiftBook}
    /\ RawPresent("cpp") => Pages = PageTexts(PageCount, TRUE)

FairSpec == FairInit /\ [][Step]_vars /\ WF_vars(Step)

\* ------------------------------------------------------------------ claims

\* C1: build_cpp on a PDF of T >= 0 pages with batch size k >= 1 writes
\* ceil(T/k) files; every file name embeds a 1-based inclusive page range
\* [a, b] with a <= b; the first range starts at 1, every other range starts
\* right after another one ends, the last ends at T, and every page of 1..T
\* lies in exactly one range.  With T = 0 no file is written and the run
\* still ends without error.
C1_PageRanges ==
    (pc = "done" /\ pages_per_file >= 1) =>
        /\ exit_code = 0
        /\ \A p \in CppFiles : Len(p) = 1 /\ EmbedsRange(p[1])
        /\ Cardinality(CppFiles) = Ceil(PageCount, pages_per_file)
        /\ Cardinality(CppRanges) = Cardinality(CppFiles)
        /\ \A r \in CppRanges : 1 <= r[1] /\ r[1] <= r[2] /\ r[2] <= PageCount
        /\ \A r \in CppRanges : r[1] = 1 \/ \E q \in CppRanges : q[2] + 1 = r[1]
        /\ \A r \in CppRanges :
             r[2] = PageCount \/ \E q \in CppRanges : q[1] = r[2] + 1
        /\ \A n \in 1..PageCount :
             Cardinality({r \in CppRanges : r[1] <= n /\ n <= r[2]}) = 1

C1_Witness ==
    /\ pc = "done" /\ pages_per_file = 2 /\ PageCount = 3
    /\ out0["cpp"] = StaleOut["cpp"]
    /\ Cardinality(CppFiles) = 2

\* C2 as stated: a build step invoked while its raw prerequisite is absent
\* fails with the missing-prerequisite message of its language, leaves in
\* its output directory nothing that was not there before, and does not
\* complete.
NothingNew(l) ==
    \A p \in DOMAIN out'[l] : p \in DOMAIN out[l] /\ EntryEq(out'[l][p], out[l][p])

C2_Original ==
    [][\A l \in Lang :
         (pc = l /\ ~RawPresent(l)) =>
            /\ pc' = "failed" /\ exit_code' = 1
            /\ message' = MissingMessage(l)
            /\ NothingNew(l)
            /\ l \notin built']_vars

\* C2, amended: as above, except that build_cpp without pypdf fails with the
\* missing-dependency message instead, whether the PDF is there or not.
C2_FailsWithoutOutput ==
    [][\A l \in Lang :
         (pc = l /\ ~RawPresent(l)) =>
            /\ pc' = "failed" /\ exit_code' = 1
            /\ message' = IF l = "cpp" /\ ~pypdf THEN PypdfMissing
                          ELSE MissingMessage(l)
            /\ NothingNew(l)
            /\ l \notin built']_vars

C2_Witness ==
    /\ pc = "failed" /\ message = SwiftMissing /\ ~RawPresent("swift")
    /\ out["swift"] = StaleOut["swift"]

\* C3: once a step has completed, its output directory holds exactly what
\* the raw input (and, for cpp, the batch size) determines, whatever it held
\* before the run; and a step that completes again with the same arguments
\* leaves the directory as its previous completion left it.
C3_OutputFromRawOnly ==
    /\ [](\A l \in built :
            (l = "cpp" /\ pages_per_file < 1) \/ ExactOutput(l))
    /\ [][\A l \in Lang :
            (l \in built' /\ l \notin built /\ snap[l].set
                /\ snap'[l].args = snap[l].args)
            => SameTree(out'[l], snap[l].tree)]_vars

C3_Witness ==
    /\ runs = 2 /\ pc = "done" /\ pages_per_file = 2 /\ PageCount = 3
    /\ snap["cpp"].args = <<2>>
    /\ RawPresent("python") /\ Cardinality(FilesIn(raw["python"])) = 4
    /\ Cardinality(SwiftMatching) = 3

\* C4: the steps run in the order python, javascript, swift, cpp, each one
\* completing before the next starts; the run halts at the first step whose
\* raw prerequisite is absent, with every earlier output rebuilt and every
\* later output directory as it was when the run started.
PcIndex ==
    CASE pc = "main" -> 0
      [] pc = "python" -> 1
      [] pc = "javascript" -> 2
      [] pc = "swift" -> 3
      [] pc \in {"cpp", "cpp_loop"} -> 4
      [] pc = "done" -> 5
      [] pc = "failed" -> FailedAt

C4_HaltsAtFirstMissing ==
    /\ pc # "failed" => built = {Languages[j] : j \in 1..(PcIndex - 1)}
    /\ \A i \in 1..Len(Languages) :
         ~RawPresent(Languages[i]) =>
            /\ PcIndex <= i
            /\ \A j \in i..Len(Languages) :
                 /\ Languages[j] \notin built
                 /\ SameTree(out[Languages[j]], out0[Languages[j]])
    /\ pc = "failed" =>
         /\ ~RawPresent(Languages[FailedAt]) \/ (FailedAt = 4 /\ ~pypdf)
         /\ \A j \in 1..(FailedAt - 1) :
              /\ RawPresent(Languages[j])
              /\ Languages[j] \in built
              /\ ExactOutput(Languages[j])
         /\ \A j \in FailedAt..Len(Languages) :
              /\ Languages[j] \notin built
              /\ SameTree(out[Languages[j]], out0[Languages[j]])

C4_Witness ==
    /\ pc = "failed" /\ message = SwiftMissing
    /\ out0 = StaleOut
    /\ Cardinality(FilesIn(out["python"])) = 4
    /\ out["cpp"] = StaleOut["cpp"]

AllRawPresent == \A l \in Lang : RawPresent(l)
Exited == pc \in {"done", "failed"}

\* C5 as stated: the run exits non-zero, with a missing-prerequisite
\* message, when the raw artifact of the step in progress is absent; with
\* all four present and a batch size >= 1 it exits zero with all four
\* output directories rebuilt.
C5_Original ==
    /\ pc = "failed" =>
         /\ exit_code # 0
         /\ message = MissingMessage(Languages[FailedAt])
         /\ ~RawPresent(Languages[FailedAt])
    /\ (Exited /\ AllRawPresent /\ pages_per_file >= 1) =>
         /\ pc = "done" /\ exit_code = 0 /\ built = Lang

\* C5, amended: pypdf has to be importable as well.  Without it the run
\* exits non-zero in the cpp step with the missing-dependency message,
\* whether the PDF is there or not; with it, the stated outcome holds, and
\* the run does reach its exit.
C5_ExitOutcome ==
    /\ [](exit_code \in {0, 1} <=> Exited)
    /\ [](pc = "failed" =>
            /\ exit_code = 1
            /\ \A j \in 1..(FailedAt - 1) : RawPresent(Languages[j])
            /\ IF FailedAt = 4 /\ ~pypdf
               THEN message = PypdfMissing
               ELSE /\ message = MissingMessage(Languages[FailedAt])
                    /\ ~RawPresent(Languages[FailedAt]))
    /\ [](pc = "done" =>
            /\ exit_code = 0 /\ message = ""
            /\ AllRawPresent /\ pypdf
            /\ built = Lang
            /\ \A l \in Lang : (l = "cpp" /\ pages_per_file < 1) \/ ExactOutput(l))
    /\ (pc = "python" /\ AllRawPresent /\ pypdf /\ pages_per_file >= 1)
          ~> (pc = "done")
    /\ (pc = "python" /\ ~(AllRawPresent /\ pypdf)) ~> (pc = "failed")

C5_Witness ==
    /\ pc = "done" /\ exit_code = 0 /\ built = Lang
    /\ out0 = StaleOut /\ PageCount = MaxPages /\ pages_per_file = MaxBatch

\* C6: after build_swift the files under the output TSPL.docc are the raw
\* regular files under TSPL.docc whose extension is .md in any case, each at
\* its relative path with its content; the count reported is their number;
\* the only other file is LICENSE.txt, there exactly when the raw directory
\* has one.
C6_SwiftFiltered ==
    "swift" \in built =>
        /\ {p \in FilesIn(out["swift"]) : Under(p, <<TsplDocc>>)} = SwiftMatching
        /\ \A p \in SwiftMatching :
             out["swift"][p].data = raw["swift"][p].data
        /\ copied = Cardinality(SwiftMatching)
        /\ {p \in FilesIn(out["swift"]) : ~Under(p, <<TsplDocc>>)} =
             IF exists(raw["swift"], <<LicenseTxt>>) THEN {<<LicenseTxt>>} ELSE {}
        /\ exists(raw["swift"], <<LicenseTxt>>) =>
             out["swift"][<<LicenseTxt>>].data = raw["swift"][<<LicenseTxt>>].data

C6_Witness ==
    /\ "swift" \in built
    /\ out0["swift"] = StaleOut["swift"]
    /\ copied = 3
    /\ is_file(out["swift"], <<TsplDocc, Sub, B_MD>>)
    /\ is_file(raw["swift"], <<TsplDocc, DotMd>>)
    /\ is_file(raw["swift"], <<Readme_md>>)
    /\ is_file(out["swift"], <<LicenseTxt>>)

\* C7: after build_python the files under the output directory are the
\* files under the raw directory, at every depth, each at the same relative
\* path with the same content.
C7_PythonMirror ==
    "python" \in built =>
        /\ FilesIn(out["python"]) = FilesIn(raw["python"])
        /\ \A p \in FilesIn(raw["python"]) :
             out["python"][p].data = raw["python"][p].data

C7_Witness ==
    /\ "python" \in built
    /\ out0["python"] = StaleOut["python"]
    /\ is_file(out["python"], <<Sub, Deep, C_txt>>)
    /\ is_file(out["python"], <<A_txt>>)

\* C8: with batch size k >= 1, every page n of 1..T has exactly one marker
\* in the output, in the file whose range contains n; markers within a file
\* ascend; a page with no extracted text has its marker too, with empty
\* text after it.
MarkersOf(n) ==
    UNION {{<<p, i>> : i \in {j \in 1..Len(out["cpp"][p].data) :
                                out["cpp"][p].data[j].page = n}} : p \in CppFiles}

C8_PageMarkers ==
    (pc = "done" /\ pages_per_file >= 1) =>
        /\ \A n \in 1..PageCount :
             /\ Cardinality(MarkersOf(n)) = 1
             /\ \A m \in MarkersOf(n) :
                  /\ RangeOf(m[1][1])[1] <= n /\ n <= RangeOf(m[1][1])[2]
                  /\ out["cpp"][m[1]].data[m[2]].text = ExtractedText(n)
        /\ \A p \in CppFiles :
             \A i, j \in 1..Len(out["cpp"][p].data) :
                i < j => out["cpp"][p].data[i].page < out["cpp"][p].data[j].page

C8_Witness ==
    /\ pc = "done" /\ pages_per_file = 2 /\ PageCount = 3
    /\ Pages[1] = <<>> /\ Pages[2] = <<"">>
    /\ \E m \in MarkersOf(1) : out["cpp"][m[1]].data[m[2]].text = ""

\* C9: with batch size k >= 1 the batching loop ends: every iteration moves
\* start up, and the loop is left after ceil(T/k) iterations with start = T.
C9_LoopTerminates ==
    /\ [][(pc = "cpp_loop" /\ iters' # iters /\ pages_per_file >= 1)
            => (start' > start /\ iters' = iters + 1)]_vars
    /\ []((pc = "cpp_loop" /\ pages_per_file >= 1) =>
            (start <= total /\ iters <= Ceil(start, pages_per_file)))
    /\ []((pc = "done" /\ pages_per_file >= 1) =>
            (start = PageCount /\ iters = Ceil(PageCount, pages_per_file)))
    /\ (pc = "cpp_loop" /\ pages_per_file >= 1) ~> (pc = "done")

C9_Witness ==
    /\ pc = "done" /\ pages_per_file = 3 /\ PageCount = 4
    /\ iters = 2 /\ start = 4

\* C10: no step of a run creates, changes or removes a raw artifact, and the
\* output directory of a language changes only in that language's step.
C10_Frame ==
    [][/\ raw' = raw
       /\ \A l \in Lang :
            ~SameTree(out'[l], out[l]) =>
                (pc = l \/ (l = "cpp" /\ pc = "cpp_loop"))]_vars

C10_Witness ==
    /\ pc = "done" /\ out0 = StaleOut
    /\ \A l \in Lang : ~SameTree(out[l], out0[l])

====
